---- MODULE Spec2Model ----
(***************************************************************************)
(* ObstacleDistanceGradient, the STOMP cost function of                    *)
(* stomp_moveit/src/cost_functions/obstacle_distance_gradient.cpp.         *)
(*                                                                         *)
(* The state is the object's fields, the caller's output arguments (they   *)
(* are references that outlive a call) and a record of the last call.      *)
(* Doubles are modelled by integers (distances, thresholds) and by reduced *)
(* fractions <<numerator, denominator>> (costs).                           *)
(***************************************************************************)
EXTENDS Integers, Sequences, FiniteSets, TLC

VARIABLES
    robot_model_ptr_,  \* the StompRobotModel given to initialize, or NULL
    group_name_,       \* std::string, "" after construction
    max_distance_,     \* double, not initialised by the constructor
    cost_weight_,      \* double, not initialised by the constructor
    planning_scene_,   \* PlanningSceneConstPtr, or NULL
    plan_request_,     \* moveit_msgs::MotionPlanRequest, default constructed at first
    robot_state_,      \* RobotStatePtr: NULL or the pose snapshot
    costs,             \* the caller's Eigen::VectorXd (output argument)
    validity,          \* the caller's bool (output argument)
    error_code,        \* the caller's MoveItErrorCodes (output argument)
    call,              \* the last call: operation, return value, and for
                       \* computeCosts the distance queries it made and the
                       \* timesteps it wrote outside costs
    armed,             \* history: a setMotionPlanRequest returned true since
                       \* construction or the most recent done
    initialized,       \* history: an initialize returned true
    pc                 \* "running", or "aborted" once the process has died

vars == <<robot_model_ptr_, group_name_, max_distance_, cost_weight_,
          planning_scene_, plan_request_, robot_state_, costs, validity,
          error_code, call, armed, initialized, pc>>

----------------------------------------------------------------------------
(* Bounds of the model *)

MaxDist == 2    \* the largest threshold and joint value
MaxCols == 2    \* columns of the parameters matrix

----------------------------------------------------------------------------
(* Values *)

NULL == "NULL"

\* max_distance: negative, zero, positive.  cost_weight: what the constructor
\* left there, or the one value the configurations carry.
ThresholdVals == {-1, 0, MaxDist}
WeightVals == {1, 2}
ConfigWeight == {2}
\* Joint values of a column; with the two scenes below the distances are
\* -2, -1, 0, 1, MaxDist - 1 and MaxDist.
JointVals == {-1, 1, MaxDist}
\* start_timestep and num_timesteps
StartVals == {0, 1}
NumVals == {0, 1, 2}

\* Robot models: one with a distance field, one without.
Models == {"model_df", "model_nodf"}
hasDistanceField(m) == m = "model_df"

\* Joint groups the robot models know; getJointModelGroup yields NULL for others.
Groups == {"arm", "leg"}
getJointModelGroup(m, g) == IF g \in Groups THEN g ELSE NULL

Scenes == {"scene_a", "scene_b"}

\* Motion plan requests: an id and a start state; robotStateMsgToRobotState
\* succeeds on a well-formed start state only.
DefaultRequest == [id |-> 0, start_ok |-> TRUE, start |-> 0]
Requests == {[id |-> 1, start_ok |-> TRUE, start |-> 1],
             [id |-> 2, start_ok |-> FALSE, start |-> 0]}
robotStateMsgToRobotState(req) == req.start_ok

\* XmlRpc values of a configuration: a member is absent, a double, or of
\* another type (a string).
Absent == [type |-> "absent", val |-> 0]
NotDouble == [type |-> "string", val |-> 0]
Double(v) == [type |-> "double", val |-> v]
Configs == [max_distance : {Absent, NotDouble} \cup {Double(v) : v \in ThresholdVals},
            cost_weight : {Absent, NotDouble} \cup {Double(v) : v \in ConfigWeight}]
hasMember(config, m) == config[m].type # "absent"
\* static_cast<double>(c[m]) throws XmlRpcException unless the value is a double
CastThrows(config, m) == config[m].type # "double"

\* Parameters matrices: one joint value per column.
Matrices == UNION {[1..n -> JointVals] : n \in 0..MaxCols}

\* The robot model's distance query: the clearance of the pose in the scene.
distance(group, scene, joints) == IF scene = "scene_b" THEN joints - 1 ELSE joints

----------------------------------------------------------------------------
(* Doubles that are quotients *)

RECURSIVE Gcd(_, _)
Gcd(a, b) == IF b = 0 THEN a ELSE Gcd(b, a % b)
Abs(a) == IF a < 0 THEN -a ELSE a

\* a / b for b # 0, as a reduced fraction with a positive denominator
Div(a, b) ==
    LET g == Gcd(Abs(a), Abs(b))
        s == IF b < 0 THEN -1 ELSE 1
    IN  <<(s * a) \div g, (s * b) \div g>>

Zero == <<0, 1>>
One == <<1, 1>>
\* Eigen::VectorXd::Zero(n)
VectorZero(n) == [i \in 1..n |-> Zero]

----------------------------------------------------------------------------
(* The pose snapshot *)

\* An empty robot_state_ pointer.
NoState == [allocated |-> FALSE, src |-> 0, populated |-> FALSE, joints |-> 0]
\* new RobotState(robot_model_ptr_), then the conversion of req.start_state:
\* a failed conversion leaves the new object unpopulated.
NewState(req) ==
    [allocated |-> TRUE, src |-> req.id,
     populated |-> robotStateMsgToRobotState(req),
     joints |-> IF robotStateMsgToRobotState(req) THEN req.start ELSE 0]

----------------------------------------------------------------------------
(* Init: the state after the constructor, which sets name_ and an empty    *)
(* robot_state_ and leaves the two doubles indeterminate.                  *)

Init ==
    /\ robot_model_ptr_ = NULL
    /\ group_name_ = ""
    /\ max_distance_ \in ThresholdVals
    /\ cost_weight_ \in WeightVals
    /\ planning_scene_ = NULL
    /\ plan_request_ = DefaultRequest
    /\ robot_state_ = NoState
    /\ costs = <<>>
    /\ validity = FALSE
    /\ error_code = "UNSET"
    /\ call = [op |-> "constructor", ret |-> "void", oob |-> {}, queries |-> <<>>]
    /\ armed = FALSE
    /\ initialized = FALSE
    /\ pc = "running"

----------------------------------------------------------------------------
(* configure *)

\* The body of configure on stored thresholds md, cw: the return value and
\* the thresholds afterwards.  max_distance_ is assigned before cost_weight
\* is converted, so a throwing cost_weight leaves max_distance_ overwritten.
configure(config, md, cw) ==
    IF ~hasMember(config, "cost_weight") \/ ~hasMember(config, "max_distance")
    THEN [ret |-> FALSE, max_distance |-> md, cost_weight |-> cw]
    ELSE IF CastThrows(config, "max_distance")
    THEN [ret |-> FALSE, max_distance |-> md, cost_weight |-> cw]
    ELSE IF CastThrows(config, "cost_weight")
    THEN [ret |-> FALSE, max_distance |-> config.max_distance.val, cost_weight |-> cw]
    ELSE [ret |-> TRUE, max_distance |-> config.max_distance.val,
          cost_weight |-> config.cost_weight.val]

BoolStr(b) == IF b THEN "true" ELSE "false"

\* A direct call of the public configure.
CallConfigure(config) ==
    LET r == configure(config, max_distance_, cost_weight_) IN
    /\ pc = "running"
    /\ max_distance_' = r.max_distance
    /\ cost_weight_' = r.cost_weight
    /\ call' = [op |-> "configure", ret |-> BoolStr(r.ret), oob |-> {}, queries |-> <<>>]
    /\ UNCHANGED <<robot_model_ptr_, group_name_, planning_scene_, plan_request_,
                   robot_state_, costs, validity, error_code, armed, initialized, pc>>

----------------------------------------------------------------------------
(* initialize *)

\* Variant: the group name is stored before the capability check.
initialize_groupFirst(robot_model_ptr, group_name, config) ==
    /\ pc = "running"
    /\ robot_model_ptr_' = robot_model_ptr
    /\ group_name_' = group_name
    /\ IF ~hasDistanceField(robot_model_ptr)
       THEN /\ call' = [op |-> "initialize", ret |-> "false", oob |-> {}, queries |-> <<>>]
            /\ UNCHANGED <<max_distance_, cost_weight_, initialized>>
       ELSE LET r == configure(config, max_distance_, cost_weight_) IN
            /\ max_distance_' = r.max_distance
            /\ cost_weight_' = r.cost_weight
            /\ initialized' = (initialized \/ r.ret)
            /\ call' = [op |-> "initialize", ret |-> BoolStr(r.ret), oob |-> {}, queries |-> <<>>]
    /\ UNCHANGED <<planning_scene_, plan_request_, robot_state_, costs, validity,
                   error_code, armed, pc>>

initialize(robot_model_ptr, group_name, config) ==
    /\ pc = "running"
    /\ robot_model_ptr_' = robot_model_ptr
    /\ IF ~hasDistanceField(robot_model_ptr)
       THEN /\ call' = [op |-> "initialize", ret |-> "false", oob |-> {}, queries |-> <<>>]
            /\ UNCHANGED <<group_name_, max_distance_, cost_weight_, initialized>>
       ELSE LET r == configure(config, max_distance_, cost_weight_) IN
            /\ group_name_' = group_name
            /\ max_distance_' = r.max_distance
            /\ cost_weight_' = r.cost_weight
            /\ initialized' = (initialized \/ r.ret)
            /\ call' = [op |-> "initialize", ret |-> BoolStr(r.ret), oob |-> {}, queries |-> <<>>]
    /\ UNCHANGED <<planning_scene_, plan_request_, robot_state_, costs, validity,
                   error_code, armed, pc>>

----------------------------------------------------------------------------
(* setMotionPlanRequest *)

\* Variant: the error code follows the result of the conversion.
setMotionPlanRequest_reportsFailure(planning_scene, req) ==
    /\ pc = "running"
    /\ planning_scene_' = planning_scene
    /\ plan_request_' = req
    /\ IF robot_model_ptr_ = NULL
       THEN /\ pc' = "aborted"
            /\ error_code' = "SUCCESS"
            /\ call' = [op |-> "setMotionPlanRequest", ret |-> "aborted", oob |-> {}, queries |-> <<>>]
            /\ UNCHANGED <<robot_state_, armed>>
       ELSE /\ robot_state_' = NewState(req)
            /\ error_code' = IF robotStateMsgToRobotState(req) THEN "SUCCESS" ELSE "FAILURE"
            /\ armed' = (armed \/ robotStateMsgToRobotState(req))
            /\ call' = [op |-> "setMotionPlanRequest",
                        ret |-> BoolStr(robotStateMsgToRobotState(req)), oob |-> {}, queries |-> <<>>]
            /\ pc' = pc
    /\ UNCHANGED <<robot_model_ptr_, group_name_, max_distance_, cost_weight_,
                   costs, validity, initialized>>

\* The StompConfiguration argument is not used by the body.
setMotionPlanRequest(planning_scene, req) ==
    /\ pc = "running"
    /\ planning_scene_' = planning_scene
    /\ plan_request_' = req
    /\ error_code' = "SUCCESS"
    /\ IF robot_model_ptr_ = NULL
       THEN \* new RobotState(robot_model_ptr_) dereferences a null robot model
            /\ pc' = "aborted"
            /\ call' = [op |-> "setMotionPlanRequest", ret |-> "aborted", oob |-> {}, queries |-> <<>>]
            /\ UNCHANGED <<robot_state_, armed>>
       ELSE /\ robot_state_' = NewState(req)
            /\ armed' = (armed \/ robotStateMsgToRobotState(req))
            /\ call' = [op |-> "setMotionPlanRequest",
                        ret |-> BoolStr(robotStateMsgToRobotState(req)), oob |-> {}, queries |-> <<>>]
            /\ pc' = pc
    /\ UNCHANGED <<robot_model_ptr_, group_name_, max_distance_, cost_weight_,
                   costs, validity, initialized>>

----------------------------------------------------------------------------
(* done *)

\* Variant: done releases the planning scene together with the snapshot.
done_releasesScene(success, total_iterations, final_cost) ==
    /\ pc = "running"
    /\ robot_state_' = NoState
    /\ planning_scene_' = NULL
    /\ armed' = FALSE
    /\ call' = [op |-> "done", ret |-> "void", oob |-> {}, queries |-> <<>>]
    /\ UNCHANGED <<robot_model_ptr_, group_name_, max_distance_, cost_weight_,
                   plan_request_, costs, validity, error_code, initialized, pc>>

done(success, total_iterations, final_cost) ==
    /\ pc = "running"
    /\ robot_state_' = NoState
    /\ armed' = FALSE
    /\ call' = [op |-> "done", ret |-> "void", oob |-> {}, queries |-> <<>>]
    /\ UNCHANGED <<robot_model_ptr_, group_name_, max_distance_, cost_weight_,
                   planning_scene_, plan_request_, costs, validity, error_code,
                   initialized, pc>>

----------------------------------------------------------------------------
(* computeCosts *)

\* Variant: the collision test comes before the threshold test.
cost_collisionFirst(dist, max_distance) ==
    IF dist < 0 THEN One
    ELSE IF dist >= max_distance THEN Zero
    ELSE Div(max_distance - dist, max_distance)

\* Variant: the ramp is not normalised by the threshold.
cost_unnormalised(dist, max_distance) ==
    IF dist >= max_distance THEN Zero
    ELSE IF dist < 0 THEN One
    ELSE <<max_distance - dist, 1>>

\* The three-branch transform of a distance into a cost (the loop body's
\* if / else if / else), with max_distance the stored threshold.
cost(dist, max_distance) ==
    IF dist >= max_distance THEN Zero
    ELSE IF dist < 0 THEN One
    ELSE Div(max_distance - dist, max_distance)

\* The loop from timestep t up to (not including) end, on the vector c:
\* costs(t) = cost for every t that is an index of c.  Timesteps are counted
\* from 0 as in the code; column t of the matrix is parameters[t + 1].
RECURSIVE ScoreLoop(_, _, _, _, _, _, _)
ScoreLoop(t, end, c, parameters, group, scene, max_distance) ==
    IF t >= end THEN c
    ELSE LET dist == distance(group, scene, parameters[t + 1])
             cst == cost(dist, max_distance)
         IN ScoreLoop(t + 1, end,
                      IF t < Len(c) THEN [c EXCEPT ![t + 1] = cst] ELSE c,
                      parameters, group, scene, max_distance)

\* The distance queries of the loop from timestep t up to end, in order:
\* the timestep and what robot_model_ptr_->distance returned for it.
QueryLog(t, end, parameters, group, scene) ==
    [i \in 1..(end - t) |->
        [t |-> t + i - 1, dist |-> distance(group, scene, parameters[t + i])]]

\* The timesteps of the range whose index lies outside a vector of
\* num_timesteps entries: costs(t) is an out-of-bounds access for them.
OutOfBounds(start_timestep, num_timesteps) ==
    {t \in start_timestep..(start_timestep + num_timesteps - 1) : t >= num_timesteps}

Min(S) == CHOOSE x \in S : \A y \in S : x <= y

\* iteration_number and rollout_number are not used by the body.
computeCosts(parameters, start_timestep, num_timesteps) ==
    LET end == start_timestep + num_timesteps
        joint_group == getJointModelGroup(robot_model_ptr_, group_name_)
        oob == OutOfBounds(start_timestep, num_timesteps)
    IN
    /\ pc = "running"
    /\ IF ~robot_state_.allocated
       THEN \* line 123: no pose snapshot
            /\ call' = [op |-> "computeCosts", ret |-> "false",
                        oob |-> {}, queries |-> <<>>]
            /\ UNCHANGED <<costs, validity, robot_state_, pc>>
       ELSE IF Len(parameters) < end
       THEN \* line 133: too few columns, after costs was allocated at line 130
            /\ costs' = VectorZero(num_timesteps)
            /\ call' = [op |-> "computeCosts", ret |-> "false",
                        oob |-> {}, queries |-> <<>>]
            /\ UNCHANGED <<validity, robot_state_, pc>>
       ELSE IF num_timesteps = 0
       THEN \* the loop body never runs
            /\ costs' = VectorZero(0)
            /\ validity' = TRUE
            /\ call' = [op |-> "computeCosts", ret |-> "true",
                        oob |-> {}, queries |-> <<>>]
            /\ UNCHANGED <<robot_state_, pc>>
       ELSE IF joint_group = NULL
       THEN \* line 145: setJointGroupPositions dereferences a null joint group
            /\ costs' = VectorZero(num_timesteps)
            /\ pc' = "aborted"
            /\ call' = [op |-> "computeCosts", ret |-> "aborted",
                        oob |-> {}, queries |-> <<>>]
            /\ UNCHANGED <<validity, robot_state_>>
       ELSE IF oob = {}
       THEN /\ costs' = ScoreLoop(start_timestep, end, VectorZero(num_timesteps),
                                  parameters, group_name_, planning_scene_, max_distance_)
            /\ robot_state_' = [robot_state_ EXCEPT !.joints = parameters[end]]
            /\ validity' = TRUE
            /\ call' = [op |-> "computeCosts", ret |-> "true", oob |-> {},
                        queries |-> QueryLog(start_timestep, end, parameters,
                                             group_name_, planning_scene_)]
            /\ pc' = pc
       ELSE \* line 163: costs(t) with t >= costs.size() is undefined behaviour
            \/ \* the index assertion of the vector fails at the first such t
               /\ costs' = ScoreLoop(start_timestep, Min(oob), VectorZero(num_timesteps),
                                     parameters, group_name_, planning_scene_, max_distance_)
               /\ robot_state_' = [robot_state_ EXCEPT !.joints = parameters[Min(oob) + 1]]
               /\ pc' = "aborted"
               /\ call' = [op |-> "computeCosts", ret |-> "aborted", oob |-> {Min(oob)},
                           queries |-> QueryLog(start_timestep, Min(oob) + 1, parameters,
                                                group_name_, planning_scene_)]
               /\ UNCHANGED validity
            \/ \* unchecked: the writes land outside the vector and the call returns
               /\ costs' = ScoreLoop(start_timestep, end, VectorZero(num_timesteps),
                                     parameters, group_name_, planning_scene_, max_distance_)
               /\ robot_state_' = [robot_state_ EXCEPT !.joints = parameters[end]]
               /\ validity' = TRUE
               /\ call' = [op |-> "computeCosts", ret |-> "true", oob |-> oob,
                           queries |-> QueryLog(start_timestep, end, parameters,
                                                group_name_, planning_scene_)]
               /\ pc' = pc
    /\ UNCHANGED <<robot_model_ptr_, group_name_, max_distance_, cost_weight_,
                   planning_scene_, plan_request_, error_code, armed, initialized>>

----------------------------------------------------------------------------
(* The host calls the operations in any order with any arguments. *)

Next ==
    \/ \E m \in Models, g \in Groups, c \in Configs : initialize(m, g, c)
    \/ \E c \in Configs : CallConfigure(c)
    \/ \E s \in Scenes, r \in Requests : setMotionPlanRequest(s, r)
    \/ \E p \in Matrices, st \in StartVals, n \in NumVals : computeCosts(p, st, n)
    \/ \E ok \in BOOLEAN, it \in 0..1, fc \in 0..1 : done(ok, it, fc)

Spec == Init /\ [][Next]_vars

----------------------------------------------------------------------------
(* Properties of the evaluator *)

Returned == {"true", "false"}

\* c is the quotient a / b
IsQuotient(c, a, b) == c[1] * b = a * c[2]

\* The distance queries of the last call whose cost was stored in costs.
Stored == {i \in 1..Len(call.queries) : call.queries[i].t < Len(costs)}
StoredCost(i) == costs[call.queries[i].t + 1]
Dist(i) == call.queries[i].dist

\* C1: a computeCosts call that returns, made while no setMotionPlanRequest
\* has returned true since construction or since the most recent done,
\* returns false; so does one that directly follows a setMotionPlanRequest
\* which returned false.
Claim_C1 ==
    [][/\ (call'.op = "computeCosts" /\ call'.ret \in Returned /\ ~armed)
            => call'.ret = "false"
       /\ (call.op = "setMotionPlanRequest" /\ call.ret = "false" /\ ~armed
           /\ call'.op = "computeCosts" /\ call'.ret \in Returned)
            => call'.ret = "false"]_vars

\* C2: with a pose snapshot and fewer columns than start_timestep +
\* num_timesteps, computeCosts returns false and leaves the caller's costs,
\* the validity flag and the snapshot as they were.
Claim_C2 ==
    [][\A p \in Matrices, st \in StartVals, n \in NumVals :
         (robot_state_.allocated /\ Len(p) < st + n /\ computeCosts(p, st, n))
            => /\ call'.ret = "false"
               /\ costs' = costs
               /\ validity' = validity
               /\ robot_state_' = robot_state_]_vars

\* C3 as stated: for every timestep scored by a successful computeCosts and
\* stored in costs, with d its distance and D = max_distance_, the cost is 0
\* when d >= D, 1 when d < 0, and (D - d) / D when 0 <= d < D.
Claim_C3 ==
    (call.op = "computeCosts" /\ call.ret = "true")
        => \A i \in Stored :
              /\ Dist(i) >= max_distance_ => StoredCost(i) = Zero
              /\ Dist(i) < 0 => StoredCost(i) = One
              /\ (0 <= Dist(i) /\ Dist(i) < max_distance_)
                   => IsQuotient(StoredCost(i), max_distance_ - Dist(i), max_distance_)

\* C3 amended: the cost is 0 when d >= D, 1 when d < 0 and d < D, and
\* (D - d) / D when 0 <= d < D; it is determined by d and D alone.
Thm_C3 ==
    (call.op = "computeCosts" /\ call.ret = "true")
        => \A i \in Stored :
              /\ Dist(i) >= max_distance_ => StoredCost(i) = Zero
              /\ (Dist(i) < 0 /\ Dist(i) < max_distance_) => StoredCost(i) = One
              /\ (0 <= Dist(i) /\ Dist(i) < max_distance_)
                   => IsQuotient(StoredCost(i), max_distance_ - Dist(i), max_distance_)

\* A successful call has stored a collision cost and a ramp cost strictly
\* between 0 and 1 under a positive threshold.
Wit_C3 ==
    /\ call.op = "computeCosts" /\ call.ret = "true"
    /\ max_distance_ > 0
    /\ Len(costs) = 2
    /\ costs[1] = One
    /\ costs[2] \notin {Zero, One}

\* C4: whenever configure returns false, called directly or from initialize,
\* max_distance_ and cost_weight_ keep their values.
Claim_C4 ==
    [][((\/ call'.op = "configure"
         \/ call'.op = "initialize" /\ hasDistanceField(robot_model_ptr_'))
        /\ call'.ret = "false")
          => (max_distance_' = max_distance_ /\ cost_weight_' = cost_weight_)]_vars

\* C5: initialize with a robot model that has no distance field returns
\* false and leaves max_distance_, cost_weight_ and group_name_ unchanged,
\* whatever the configuration holds (configure is not run).
Thm_C5 ==
    [][(call'.op = "initialize" /\ ~hasDistanceField(robot_model_ptr_'))
          => /\ call'.ret = "false"
             /\ max_distance_' = max_distance_
             /\ cost_weight_' = cost_weight_
             /\ group_name_' = group_name_]_vars

\* initialize has failed on the model without a distance field, after an
\* earlier initialize had stored a group name.
Wit_C5 ==
    /\ call.op = "initialize" /\ call.ret = "false"
    /\ robot_model_ptr_ = "model_nodf"
    /\ group_name_ = "leg"

\* C6: every cost a successful computeCosts stores lies in [0, 1], for
\* every distance and every threshold configure accepts.
Thm_C6 ==
    (call.op = "computeCosts" /\ call.ret = "true")
        => \A i \in 1..Len(costs) :
              /\ costs[i][2] > 0
              /\ 0 <= costs[i][1]
              /\ costs[i][1] <= costs[i][2]

\* A successful call under a negative threshold has stored both 1 and 0.
Wit_C6 ==
    /\ call.op = "computeCosts" /\ call.ret = "true"
    /\ max_distance_ < 0
    /\ Len(costs) = 2
    /\ costs[1] = One
    /\ costs[2] = Zero

\* C7: done clears the pose snapshot for all its arguments, also when it is
\* already absent, and leaves max_distance_, cost_weight_, group_name_,
\* robot_model_ptr_, planning_scene_ and plan_request_ unchanged.
Thm_C7 ==
    [][call'.op = "done"
          => /\ robot_state_' = NoState
             /\ max_distance_' = max_distance_
             /\ cost_weight_' = cost_weight_
             /\ group_name_' = group_name_
             /\ robot_model_ptr_' = robot_model_ptr_
             /\ planning_scene_' = planning_scene_
             /\ plan_request_' = plan_request_]_vars

\* done has run on an initialised evaluator that holds a scene and a request.
Wit_C7 ==
    /\ call.op = "done"
    /\ ~robot_state_.allocated
    /\ robot_model_ptr_ # NULL
    /\ group_name_ # ""
    /\ planning_scene_ # NULL
    /\ plan_request_ # DefaultRequest

\* C8: after a successful initialize, while a setMotionPlanRequest has
\* returned true and done has not been called, computeCosts with
\* start_timestep = 0 and enough columns returns true with validity true;
\* otherwise a computeCosts that returns returns false; and a
\* setMotionPlanRequest that returns true installs a snapshot built from its
\* own start state.
Claim_C8 ==
    [][initialized =>
        /\ \A p \in Matrices, n \in NumVals :
             (armed /\ Len(p) >= n /\ computeCosts(p, 0, n))
                => (call'.ret = "true" /\ validity' = TRUE)
        /\ (~armed /\ call'.op = "computeCosts" /\ call'.ret \in Returned)
                => call'.ret = "false"
        /\ \A s \in Scenes, r \in Requests :
             (setMotionPlanRequest(s, r) /\ call'.ret = "true")
                => robot_state_' = [allocated |-> TRUE, src |-> r.id,
                                    populated |-> TRUE, joints |-> r.start]]_vars

\* C9: a computeCosts call that passes its checks writes the cost of every
\* timestep of its range inside the costs vector (no write falls outside),
\* also when start_timestep > 0.
Claim_C9 ==
    call.op = "computeCosts"
        => /\ call.oob = {}
           /\ \A i \in 1..Len(call.queries) : call.queries[i].t < Len(costs)

\* C10: after setMotionPlanRequest the error code is SUCCESS, whether the
\* call returned true or false; on a false return the scene and the request
\* of the call are stored and a pose snapshot is allocated.
Thm_C10 ==
    [][\A s \in Scenes, r \in Requests :
         (call'.op = "setMotionPlanRequest" /\ setMotionPlanRequest(s, r))
            => /\ error_code' = "SUCCESS"
               /\ call'.ret = "false"
                    => /\ planning_scene_' = s
                       /\ plan_request_' = r
                       /\ robot_state_'.allocated]_vars

\* setMotionPlanRequest has returned false and left an unpopulated snapshot.
Wit_C10 ==
    /\ call.op = "setMotionPlanRequest" /\ call.ret = "false"
    /\ error_code = "SUCCESS"
    /\ robot_state_.allocated
    /\ ~robot_state_.populated

====
